---- MODULE Spec2Model ----
(***************************************************************************)
(* The COVID-19 analysis notebook (covid_data_analysis.ipynb) as a state   *)
(* machine: one run of the notebook from its first code cell to its last.  *)
(*                                                                         *)
(* A table (pandas DataFrame) is a record [columns, rows]: the ordered     *)
(* column labels and the sequence of rows, each row a function from the    *)
(* column labels to the cells.  Counts are non-negative integers; a        *)
(* missing numeric cell or a missing date (NaN, NaT) is NaN, a missing     *)
(* text cell is the empty text.  A date read from a CSV file is text, the  *)
(* pair <<format, day>>; pd.to_datetime turns it into the day number and   *)
(* to_csv writes a day number back in ISO format.  A ratio (a float in the *)
(* notebook) is kept as the exact fraction <<numerator, denominator>> in   *)
(* lowest terms; x/0 is Inf and 0/0 or a ratio of a missing value is       *)
(* NaNRate.                                                                *)
(***************************************************************************)
EXTENDS Integers, Sequences, FiniteSets, TLC

VARIABLES
    fs,                     \* the four input files under attached_assets/
    disk,                   \* the four output files
    written,                \* the output files this run has written
    pc,                     \* the cell (or to_csv call) to run next
    executed,               \* the steps run so far, in order
    ties,                   \* how this build's quicksort orders equal keys
    day_wise_df, full_grouped_df, usa_county_wise_df, worldometer_df,
    full_grouped_filtered, full_grouped_relevant,
    worldometer_filtered, worldometer_relevant,
    latest_date, latest_data, top_countries, top_deaths, mortality_data,
    region_data, top_5_countries, top_countries_data, continent_data,
    highest_cases

frames == <<day_wise_df, full_grouped_df, usa_county_wise_df, worldometer_df,
            full_grouped_filtered, full_grouped_relevant,
            worldometer_filtered, worldometer_relevant,
            latest_date, latest_data, top_countries, top_deaths,
            mortality_data, region_data, top_5_countries,
            top_countries_data, continent_data, highest_cases>>

vars == <<fs, disk, written, pc, executed, ties, frames>>

---------------------------------------------------------------------------
(* Program constants.                                                      *)

ConfirmedThreshold == 15
TotalCasesThreshold == 15
MortalityMinCases == 1000
TopCountriesN == 15
TopDeathsN == 15
MortalityN == 15
TopFiveN == 5
HighestCasesN == 10
Percent == 100
Million == 1000000

(* Bounds of the model.                                                    *)
MaxRows == 3        \* rows of an exhaustively enumerated input table
MaxBigRows == 16    \* rows of the largest patterned country-day table

---------------------------------------------------------------------------
(* Cells.                                                                  *)

NaN == -1
NoText == ""
Inf == <<1, 0>>
NaNRate == <<0, 0>>

IsoFormat == "%Y-%m-%d"
UsFormat == "%m/%d/%Y"
BadFormat == "not a date"
NoDateText == <<NoText, NaN>>

RECURSIVE Gcd(_, _)
Gcd(a, b) == IF b = 0 THEN a ELSE Gcd(b, a % b)

(* a / b as pandas computes it on two numeric cells of a float column.     *)
Divide(a, b) ==
    IF a = NaN \/ b = NaN THEN NaNRate
    ELSE IF b = 0 THEN (IF a = 0 THEN NaNRate ELSE Inf)
    ELSE LET g == Gcd(a, b) IN <<a \div g, b \div g>>

(* rate * k for a positive integer k.                                      *)
Times(rate, k) ==
    IF rate[2] = 0 THEN rate
    ELSE LET g == Gcd(rate[1] * k, rate[2])
         IN  <<(rate[1] * k) \div g, rate[2] \div g>>

IsRate(col) == col \in {"Mortality Rate (%)", "Cases per Million",
                        "Deaths per Million"}

(* Whether a cell of column col is missing (isnull).                       *)
IsNull(col, v) ==
    IF IsRate(col) THEN v = NaNRate
    ELSE IF col \in {"Country/Region", "WHO Region", "Continent"} THEN v = NoText
    ELSE v = NaN

(* a > b on two cells of column col that are not missing.                  *)
Greater(col, a, b) ==
    IF IsRate(col)
    THEN IF a[2] = 0 THEN b[2] # 0
         ELSE IF b[2] = 0 THEN FALSE
         ELSE a[1] * b[2] > b[1] * a[2]
    ELSE a > b

(* series >= k on a numeric cell: a comparison with NaN is False.          *)
AtLeast(v, k) == v # NaN /\ v >= k

---------------------------------------------------------------------------
(* Tables.                                                                 *)

Range(s) == {s[i] : i \in DOMAIN s}

Frame(columns, rows) == [columns |-> columns, rows |-> rows]

Unset == Frame(<<>>, <<>>)

RECURSIVE SelectRows(_, _)
(* The rows of a sequence at which keep is TRUE, in their order.           *)
SelectRows(rows, keep) ==
    IF rows = <<>> THEN <<>>
    ELSE LET rest == SelectRows(Tail(rows), [i \in 1..(Len(rows) - 1) |-> keep[i + 1]])
         IN  IF keep[1] THEN <<Head(rows)>> \o rest ELSE rest

(* df[mask]: boolean indexing keeps the rows whose mask is True.           *)
BooleanIndex(df, mask) == Frame(df.columns, SelectRows(df.rows, mask))

(* A faulty variant: the selection followed by dropna().                   *)
SelectColumnsDropNa(df, cols) ==
    LET complete == SelectRows(df.rows,
                        [i \in DOMAIN df.rows |->
                            \A c \in Range(cols) : ~IsNull(c, df.rows[i][c])])
    IN  Frame(cols, [i \in DOMAIN complete |-> [c \in Range(cols) |-> complete[i][c]]])

(* df[[c1, c2, ...]]: the listed columns, in the listed order.             *)
SelectColumns(df, cols) ==
    Frame(cols, [i \in DOMAIN df.rows |-> [c \in Range(cols) |-> df.rows[i][c]]])

(* df.rename(columns=mapping): the labels in DOMAIN mapping are replaced,  *)
(* the cells stay under the new labels.                                    *)
NewLabel(mapping, c) == IF c \in DOMAIN mapping THEN mapping[c] ELSE c

OldLabel(mapping, columns, c) ==
    CHOOSE o \in Range(columns) : NewLabel(mapping, o) = c

Rename(df, mapping) ==
    LET columns == [k \in DOMAIN df.columns |-> NewLabel(mapping, df.columns[k])]
    IN  Frame(columns,
              [i \in DOMAIN df.rows |->
                  [c \in Range(columns) |-> df.rows[i][OldLabel(mapping, df.columns, c)]]])

(* df[col] = values: the column is added (or replaced) in every row.       *)
SetColumn(df, col, values) ==
    Frame(IF col \in Range(df.columns) THEN df.columns ELSE Append(df.columns, col),
          [i \in DOMAIN df.rows |->
              [c \in Range(df.columns) \cup {col} |->
                  IF c = col THEN values[i] ELSE df.rows[i][c]]])

(* pd.to_datetime on one text cell, and whether it raises on a column.     *)
ParseDate(text) == IF text[1] = NoText THEN NaN ELSE text[2]

DateParseFails(df) == \E i \in DOMAIN df.rows : df.rows[i]["Date"][1] = BadFormat

ToDatetime(df) ==
    SetColumn(df, "Date", [i \in DOMAIN df.rows |-> ParseDate(df.rows[i]["Date"])])

(* A faulty variant: min() in place of max().                              *)
Min(df, col) ==
    LET present == {df.rows[i][col] : i \in DOMAIN df.rows} \ {NaN}
    IN  IF present = {} THEN NaN
        ELSE CHOOSE m \in present : \A v \in present : m <= v

(* series.max(): the largest cell that is not missing, NaN if none is.     *)
Max(df, col) ==
    LET present == {df.rows[i][col] : i \in DOMAIN df.rows} \ {NaN}
    IN  IF present = {} THEN NaN
        ELSE CHOOSE m \in present : \A v \in present : v <= m

(* The orders in which a quicksort may leave rows with equal keys.         *)
TieOrders == {"source", "reverse"}

(* Whether row i is placed before row j (i # j) by                         *)
(* sort_values(col, ascending=False): larger keys first, missing keys last *)
(* in source order, equal keys as the sort leaves them.                    *)
Precedes(rows, col, order, i, j) ==
    LET a == rows[i][col]
        b == rows[j][col]
    IN  IF IsNull(col, a) THEN IsNull(col, b) /\ i < j
        ELSE IF IsNull(col, b) THEN TRUE
        ELSE IF Greater(col, a, b) THEN TRUE
        ELSE IF Greater(col, b, a) THEN FALSE
        ELSE IF order = "source" THEN i < j ELSE i > j

SortValues(df, col, order) ==
    LET n == Len(df.rows)
        place(i) == 1 + Cardinality({j \in (1..n) \ {i} : Precedes(df.rows, col, order, j, i)})
    IN  Frame(df.columns,
              [k \in 1..n |-> df.rows[CHOOSE i \in 1..n : place(i) = k]])

(* df.head(n): the first n rows, or all of them when there are fewer.      *)
Head_(df, n) ==
    Frame(df.columns, SubSeq(df.rows, 1, IF Len(df.rows) < n THEN Len(df.rows) ELSE n))

(* The text keys of the model in the order sorted() gives them.            *)
KeyOrder == <<"Africa", "Americas", "Asia", "Europe">>

RECURSIVE SumCells(_, _)
(* sum over a sequence of rows of column col, missing cells skipped.       *)
SumCells(rows, col) ==
    IF rows = <<>> THEN 0
    ELSE (IF Head(rows)[col] = NaN THEN 0 ELSE Head(rows)[col]) + SumCells(Tail(rows), col)

(* df.groupby(key).agg({c: 'sum' ...}).reset_index(): one row per key      *)
(* present, keys sorted, rows with a missing key left out.                 *)
GroupBySum(df, key, cols) ==
    LET present == SelectRows(KeyOrder,
                       [k \in DOMAIN KeyOrder |->
                           \E i \in DOMAIN df.rows : df.rows[i][key] = KeyOrder[k]])
        group(g) == SelectRows(df.rows, [i \in DOMAIN df.rows |-> df.rows[i][key] = g])
    IN  Frame(<<key>> \o cols,
              [k \in DOMAIN present |->
                  [c \in {key} \cup Range(cols) |->
                      IF c = key THEN present[k] ELSE SumCells(group(present[k]), c)]])

(* Files.  A field of a CSV file is the value it denotes; an empty field   *)
(* is the missing value of its column.                                     *)
File(header, records) == [exists |-> TRUE, header |-> header, records |-> records]

Missing == [exists |-> FALSE, header |-> <<>>, records |-> <<>>]

Stale == File(<<"stale">>, <<>>)

(* pd.read_csv: columns from the header row, one row per record; dates     *)
(* stay text.                                                              *)
ReadCsv(file) == Frame(file.header, file.records)

FormatCell(col, v) ==
    IF col = "Date" THEN (IF v = NaN THEN NoDateText ELSE <<IsoFormat, v>>) ELSE v

(* df.to_csv(path, index=False): header row and one record per row; a     *)
(* datetime is written in ISO format.                                      *)
ToCsv(df) ==
    File(df.columns,
         [i \in DOMAIN df.rows |-> [c \in Range(df.columns) |-> FormatCell(c, df.rows[i][c])]])

---------------------------------------------------------------------------
(* The input files of a run.                                               *)

DayWisePath == "attached_assets/day_wise.csv"
FullGroupedPath == "attached_assets/full_grouped.csv"
UsaCountyPath == "attached_assets/usa_county_wise.csv"
WorldometerPath == "attached_assets/worldometer_data.csv"
InputPaths == {DayWisePath, FullGroupedPath, UsaCountyPath, WorldometerPath}

ProcessedDayWisePath == "processed_day_wise.csv"
ProcessedCountryWisePath == "processed_country_wise.csv"
ProcessedWorldometerPath == "processed_worldometer.csv"
LatestCovidDataPath == "latest_covid_data.csv"
OutputPaths == {ProcessedDayWisePath, ProcessedCountryWisePath,
                ProcessedWorldometerPath, LatestCovidDataPath}

DayWiseHeader == <<"Date", "Confirmed", "Deaths", "Recovered", "Active",
                   "New cases", "New deaths", "New recovered">>
FullGroupedHeader == <<"Date", "Country/Region", "Confirmed", "Deaths", "Recovered",
                       "Active", "New cases", "WHO Region">>
UsaCountyHeader == <<"Province_State", "Date", "Confirmed", "Deaths">>
WorldometerHeader == <<"Country/Region", "Continent", "Population", "TotalCases",
                       "TotalDeaths", "TotalRecovered", "ActiveCases", "TotalTests",
                       "WHO Region">>

CountryNames == <<"C01", "C02", "C03", "C04", "C05", "C06", "C07", "C08", "C09", "C10",
                  "C11", "C12", "C13", "C14", "C15", "C16", "C17", "C18", "C19", "C20">>

(* A record of a file from its fields in header order.                     *)
Record(header, fields) ==
    [c \in Range(header) |-> fields[CHOOSE k \in DOMAIN header : header[k] = c]]

(* Records of full_grouped.csv, the country left open: date, confirmed,    *)
(* deaths, recovered, active, new cases, WHO region.                       *)
CountryDayRecords ==
    { <<<<IsoFormat, 1>>, 2000, 60, 40, 1900, 5, "Americas">>,
      <<<<IsoFormat, 2>>, 1000, 30, 70, 900, 4, "Americas">>,
      <<<<IsoFormat, 2>>, 1000, 60, NaN, 940, 3, "Europe">>,
      <<<<IsoFormat, 2>>, 15, NaN, 0, 15, 2, "Americas">>,
      <<<<IsoFormat, 2>>, 14, 0, 1, 13, 1, "Europe">>,
      <<<<IsoFormat, 2>>, 2000, 60, 40, 1900, 0, NoText>>,
      <<NoDateText, 15, 3, 2, 10, 1, "Europe">>,
      <<<<IsoFormat, 2>>, NaN, 0, 0, 0, 0, "Europe">> }

(* The table of full_grouped.csv: row i is country i.                      *)
CountryDayFile(rs) ==
    File(FullGroupedHeader,
         [i \in DOMAIN rs |->
             Record(FullGroupedHeader,
                    <<rs[i][1], CountryNames[i], rs[i][2], rs[i][3], rs[i][4],
                      rs[i][5], rs[i][6], rs[i][7]>>)])

SmallCountryDayFiles ==
    {CountryDayFile(rs) : rs \in UNION {[1..n -> CountryDayRecords] : n \in 0..MaxRows}}

(* Tables that open with a country that has no confirmed case on the      *)
(* latest date, as full_grouped.csv has them for the first weeks.          *)
NoCasesRecord == <<<<IsoFormat, 2>>, 0, 0, 0, 0, 0, "Americas">>

NoCasesCountryDayFiles ==
    {CountryDayFile(<<NoCasesRecord>> \o rs) :
        rs \in UNION {[1..n -> CountryDayRecords] : n \in 0..(MaxRows - 1)}}

(* Larger tables, all on one date: n countries whose confirmed counts take *)
(* m values (one value: all equal; more values than rows: all different).  *)
BigCountryDayFile(n, m) ==
    CountryDayFile([i \in 1..n |->
        <<<<IsoFormat, 2>>, 1000 + 100 * ((7 * i) % m), 10 * ((5 * i) % 4), 0,
          900, 1, IF i % 3 = 0 THEN "Europe" ELSE "Americas">>])

BigCountryDayFiles ==
    {BigCountryDayFile(n, m) : n \in 4..MaxBigRows, m \in {1, 3, 19}}

(* Records of worldometer_data.csv: continent, population, total cases,    *)
(* total deaths, total recovered, active cases, total tests, WHO region.   *)
SnapshotRecords ==
    { <<"Asia", 2, 15, 1, 10, 4, 7, "Europe">>,
      <<"Asia", 3, 16, 0, NaN, 16, 9, "Americas">>,
      <<"Europe", NaN, 17, 2, 8, 7, NaN, "Europe">>,
      <<"Europe", 5, 14, 1, 3, 10, 6, "Europe">>,
      <<NoText, NaN, 17, 3, 4, 10, 2, NoText>>,
      <<"Asia", 4, NaN, 0, 0, 0, 0, "Americas">> }

SnapshotFile(rs) ==
    File(WorldometerHeader,
         [i \in DOMAIN rs |->
             Record(WorldometerHeader,
                    <<CountryNames[i], rs[i][1], rs[i][2], rs[i][3], rs[i][4],
                      rs[i][5], rs[i][6], rs[i][7], rs[i][8]>>)])

SnapshotFiles ==
    {SnapshotFile(rs) : rs \in UNION {[1..n -> SnapshotRecords] : n \in 0..MaxRows}}

(* Records of day_wise.csv, the date as a day number: the file writes all  *)
(* its dates in one format.                                                *)
DailyRecords ==
    { <<1, 555, 17, 28, 510, 0, 0, 0>>,
      <<2, 654, 18, 30, 606, 99, 1, 2>>,
      <<NaN, 941, NaN, 36, 879, 287, 8, 6>> }

DateText(format, day) == IF day = NaN THEN NoDateText ELSE <<format, day>>

DailyFile(format, rs) ==
    File(DayWiseHeader,
         [i \in DOMAIN rs |->
             Record(DayWiseHeader,
                    <<DateText(format, rs[i][1]), rs[i][2], rs[i][3], rs[i][4], rs[i][5],
                      rs[i][6], rs[i][7], rs[i][8]>>)])

DailyFiles ==
    {DailyFile(format, rs) :
        format \in {IsoFormat, UsFormat, BadFormat},
        rs \in UNION {[1..n -> DailyRecords] : n \in 0..MaxRows}}

UsaCountyFile ==
    File(UsaCountyHeader,
         <<Record(UsaCountyHeader, <<"Alabama", <<UsFormat, 1>>, 3, 0>>)>>)

DefaultFiles ==
    (DayWisePath :> DailyFile(IsoFormat, <<<<1, 555, 17, 28, 510, 0, 0, 0>>>>))
    @@ (FullGroupedPath :> BigCountryDayFile(2, 3))
    @@ (UsaCountyPath :> UsaCountyFile)
    @@ (WorldometerPath :> SnapshotFile(<<<<"Asia", 3, 16, 0, NaN, 16, 9, "Americas">>,
                                          <<"Europe", 5, 14, 1, 3, 10, 6, "Europe">>>>))

(* What a run may find: the input files, the tie order of the build's     *)
(* sort, and whether output files of an earlier run are there.  One table  *)
(* is varied at a time (the tables do not meet in the notebook), or some   *)
(* of the files are missing.                                               *)
Scenario(files, order, stale) == [fs |-> files, ties |-> order, stale |-> stale]

Scenarios ==
    {Scenario([DefaultFiles EXCEPT ![FullGroupedPath] = f], order, FALSE) :
        f \in SmallCountryDayFiles \cup NoCasesCountryDayFiles \cup BigCountryDayFiles,
        order \in TieOrders}
    \cup {Scenario([DefaultFiles EXCEPT ![WorldometerPath] = f], "source", FALSE) :
        f \in SnapshotFiles}
    \cup {Scenario([DefaultFiles EXCEPT ![DayWisePath] = f], "source", stale) :
        f \in DailyFiles, stale \in BOOLEAN}
    \cup {Scenario([p \in InputPaths |-> IF p \in absent THEN Missing ELSE DefaultFiles[p]],
                   "source", stale) :
        absent \in SUBSET InputPaths, stale \in BOOLEAN}

---------------------------------------------------------------------------
(* The run.                                                                *)

(* A faulty variant: the day-wise table saved as soon as it is preprocessed.*)
CellOrderSavingEarly ==
    <<"load", "day_wise", "save_day_wise", "full_grouped", "worldometer", "latest",
      "top_deaths", "mortality", "region", "top_5", "continent", "highest",
      "save_country_wise", "save_worldometer", "save_latest">>

(* The code cells that assign or write, top to bottom; the save cell is    *)
(* one step per to_csv call.  The cells that only print or plot change     *)
(* nothing the run keeps and are not steps.                                *)
CellOrder ==
    <<"load", "day_wise", "full_grouped", "worldometer", "latest", "top_deaths",
      "mortality", "region", "top_5", "continent", "highest",
      "save_day_wise", "save_country_wise", "save_worldometer", "save_latest">>

(* The step after a step that ended without an exception.                  *)
After(step) ==
    LET k == CHOOSE i \in DOMAIN CellOrder : CellOrder[i] = step
    IN  IF k = Len(CellOrder) THEN "done" ELSE CellOrder[k + 1]

Init ==
    /\ \E s \in Scenarios :
           /\ fs = s.fs
           /\ ties = s.ties
           /\ disk = [p \in OutputPaths |-> IF s.stale THEN Stale ELSE Missing]
    /\ written = {}
    /\ pc = CellOrder[1]
    /\ executed = <<>>
    /\ day_wise_df = Unset /\ full_grouped_df = Unset
    /\ usa_county_wise_df = Unset /\ worldometer_df = Unset
    /\ full_grouped_filtered = Unset /\ full_grouped_relevant = Unset
    /\ worldometer_filtered = Unset /\ worldometer_relevant = Unset
    /\ latest_date = NaN /\ latest_data = Unset
    /\ top_countries = Unset /\ top_deaths = Unset /\ mortality_data = Unset
    /\ region_data = Unset /\ top_5_countries = <<>> /\ top_countries_data = Unset
    /\ continent_data = Unset /\ highest_cases = Unset

(* The step ends normally, or with an exception that ends the run.         *)
Proceed(step) == pc' = After(step) /\ executed' = Append(executed, step)

Raise == pc' = "failed" /\ executed' = executed

loaded == <<day_wise_df, full_grouped_df, usa_county_wise_df, worldometer_df>>
cleaned == <<full_grouped_filtered, full_grouped_relevant,
             worldometer_filtered, worldometer_relevant>>
country_views == <<top_countries, top_deaths, mortality_data, region_data,
                   top_5_countries, top_countries_data, highest_cases>>
files == <<fs, disk, written, ties>>

(* A faulty variant: a missing file is passed over and the run goes on.    *)
LoadDatasetsSkippingMissing ==
    /\ pc = "load"
    /\ day_wise_df' = IF fs[DayWisePath].exists THEN ReadCsv(fs[DayWisePath]) ELSE Unset
    /\ full_grouped_df' =
           IF fs[FullGroupedPath].exists THEN ReadCsv(fs[FullGroupedPath]) ELSE Unset
    /\ usa_county_wise_df' =
           IF fs[UsaCountyPath].exists THEN ReadCsv(fs[UsaCountyPath]) ELSE Unset
    /\ worldometer_df' =
           IF fs[WorldometerPath].exists THEN ReadCsv(fs[WorldometerPath]) ELSE Unset
    /\ Proceed("load")
    /\ UNCHANGED <<files, cleaned, latest_date, latest_data, country_views, continent_data>>

(* Cell 1: the four read_csv calls in order; the first file that is        *)
(* missing raises, and the assignments before it stay.                     *)
LoadDatasets ==
    /\ pc = "load"
    /\ LET ok1 == fs[DayWisePath].exists
           ok2 == ok1 /\ fs[FullGroupedPath].exists
           ok3 == ok2 /\ fs[UsaCountyPath].exists
           ok4 == ok3 /\ fs[WorldometerPath].exists
       IN  /\ day_wise_df' = IF ok1 THEN ReadCsv(fs[DayWisePath]) ELSE day_wise_df
           /\ full_grouped_df' = IF ok2 THEN ReadCsv(fs[FullGroupedPath]) ELSE full_grouped_df
           /\ usa_county_wise_df' = IF ok3 THEN ReadCsv(fs[UsaCountyPath]) ELSE usa_county_wise_df
           /\ worldometer_df' = IF ok4 THEN ReadCsv(fs[WorldometerPath]) ELSE worldometer_df
           /\ IF ok4 THEN Proceed("load") ELSE Raise
    /\ UNCHANGED <<files, cleaned, latest_date, latest_data, country_views, continent_data>>

(* Cell 2.2: day_wise_df['Date'] = pd.to_datetime(day_wise_df['Date']).    *)
PreprocessDayWise ==
    /\ pc = "day_wise"
    /\ IF DateParseFails(day_wise_df)
       THEN Raise /\ UNCHANGED day_wise_df
       ELSE Proceed("day_wise") /\ day_wise_df' = ToDatetime(day_wise_df)
    /\ UNCHANGED <<files, full_grouped_df, usa_county_wise_df, worldometer_df, cleaned,
                   latest_date, latest_data, country_views, continent_data>>

FullGroupedColumns ==
    <<"Date", "Country/Region", "Confirmed", "Deaths", "Recovered", "Active", "WHO Region">>

(* A faulty variant: the threshold taken as "more than 15".                *)
FilterConfirmedStrict(df) ==
    BooleanIndex(df, [i \in DOMAIN df.rows |->
                         df.rows[i]["Confirmed"] # NaN
                             /\ df.rows[i]["Confirmed"] > ConfirmedThreshold])

(* full_grouped_df[full_grouped_df['Confirmed'] >= 15]                     *)
FilterConfirmed(df) ==
    BooleanIndex(df, [i \in DOMAIN df.rows |->
                         AtLeast(df.rows[i]["Confirmed"], ConfirmedThreshold)])

(* A faulty variant: the seven columns taken from the table as loaded, the *)
(* rows under the threshold with them.                                     *)
PreprocessFullGroupedUnfiltered ==
    /\ pc = "full_grouped"
    /\ IF DateParseFails(full_grouped_df)
       THEN Raise /\ UNCHANGED <<full_grouped_df, full_grouped_filtered, full_grouped_relevant>>
       ELSE LET parsed == ToDatetime(full_grouped_df)
            IN  /\ Proceed("full_grouped")
                /\ full_grouped_df' = parsed
                /\ full_grouped_filtered' = FilterConfirmed(parsed)
                /\ full_grouped_relevant' = SelectColumns(parsed, FullGroupedColumns)
    /\ UNCHANGED <<files, day_wise_df, usa_county_wise_df, worldometer_df,
                   worldometer_filtered, worldometer_relevant,
                   latest_date, latest_data, country_views, continent_data>>

(* Cell 2.3: parse the dates, filter on Confirmed, keep seven columns.     *)
PreprocessFullGrouped ==
    /\ pc = "full_grouped"
    /\ IF DateParseFails(full_grouped_df)
       THEN Raise /\ UNCHANGED <<full_grouped_df, full_grouped_filtered, full_grouped_relevant>>
       ELSE LET parsed == ToDatetime(full_grouped_df)
                filtered == FilterConfirmed(parsed)
            IN  /\ Proceed("full_grouped")
                /\ full_grouped_df' = parsed
                /\ full_grouped_filtered' = filtered
                /\ full_grouped_relevant' = SelectColumns(filtered, FullGroupedColumns)
    /\ UNCHANGED <<files, day_wise_df, usa_county_wise_df, worldometer_df,
                   worldometer_filtered, worldometer_relevant,
                   latest_date, latest_data, country_views, continent_data>>

WorldometerColumns ==
    <<"Country/Region", "Continent", "TotalCases", "TotalDeaths", "TotalRecovered",
      "ActiveCases", "WHO Region", "Population">>

(* A faulty variant: two of the new labels exchanged.                      *)
WorldometerRenamesSwapped ==
    ("TotalCases" :> "Confirmed") @@ ("TotalDeaths" :> "Recovered")
    @@ ("TotalRecovered" :> "Deaths") @@ ("ActiveCases" :> "Active")

WorldometerRenames ==
    ("TotalCases" :> "Confirmed") @@ ("TotalDeaths" :> "Deaths")
    @@ ("TotalRecovered" :> "Recovered") @@ ("ActiveCases" :> "Active")

(* worldometer_df[worldometer_df['TotalCases'] >= 15]                      *)
FilterTotalCases(df) ==
    BooleanIndex(df, [i \in DOMAIN df.rows |->
                         AtLeast(df.rows[i]["TotalCases"], TotalCasesThreshold)])

(* Cell 2.4: filter on TotalCases, keep eight columns, rename four.        *)
PreprocessWorldometer ==
    /\ pc = "worldometer"
    /\ Proceed("worldometer")
    /\ LET filtered == FilterTotalCases(worldometer_df)
       IN  /\ worldometer_filtered' = filtered
           /\ worldometer_relevant' =
                  Rename(SelectColumns(filtered, WorldometerColumns), WorldometerRenames)
    /\ UNCHANGED <<files, loaded, full_grouped_filtered, full_grouped_relevant,
                   latest_date, latest_data, country_views, continent_data>>

(* df[col] as a sequence of cells.                                         *)
Column(df, col) == [i \in DOMAIN df.rows |-> df.rows[i][col]]

(* full_grouped_relevant[full_grouped_relevant['Date'] == latest_date]:    *)
(* a comparison with a missing date is False.                              *)
RowsOnDate(df, date) ==
    BooleanIndex(df, [i \in DOMAIN df.rows |->
                         df.rows[i]["Date"] # NaN /\ df.rows[i]["Date"] = date])

(* A faulty variant: the sort left ascending.                              *)
TopNAscending(df, col, n, order) ==
    LET sorted == SortValues(df, col, order).rows
    IN  Head_(Frame(df.columns,
                    [k \in DOMAIN sorted |-> sorted[Len(sorted) + 1 - k]]), n)

(* df.sort_values(col, ascending=False).head(n)                            *)
TopN(df, col, n, order) == Head_(SortValues(df, col, order), n)

(* Cell 3.2, first part: the rows of the latest date and the top 15 by     *)
(* confirmed cases.                                                        *)
LatestData ==
    /\ pc = "latest"
    /\ Proceed("latest")
    /\ LET date == Max(full_grouped_relevant, "Date")
           rows == RowsOnDate(full_grouped_relevant, date)
       IN  /\ latest_date' = date
           /\ latest_data' = rows
           /\ top_countries' = TopN(rows, "Confirmed", TopCountriesN, ties)
    /\ UNCHANGED <<files, loaded, cleaned, top_deaths, mortality_data, region_data,
                   top_5_countries, top_countries_data, highest_cases, continent_data>>

(* Cell 3.2, second part: the top 15 by deaths.                            *)
TopDeaths ==
    /\ pc = "top_deaths"
    /\ Proceed("top_deaths")
    /\ top_deaths' = TopN(latest_data, "Deaths", TopDeathsN, ties)
    /\ UNCHANGED <<files, loaded, cleaned, latest_date, latest_data, top_countries,
                   mortality_data, region_data, top_5_countries, top_countries_data,
                   highest_cases, continent_data>>

(* (df['Deaths'] / df['Confirmed']) * 100, row by row.                     *)
MortalityRates(df) ==
    [i \in DOMAIN df.rows |->
        Times(Divide(df.rows[i]["Deaths"], df.rows[i]["Confirmed"]), Percent)]

(* latest_data[latest_data['Confirmed'] >= 1000]                           *)
FilterMortality(df) ==
    BooleanIndex(df, [i \in DOMAIN df.rows |->
                         AtLeast(df.rows[i]["Confirmed"], MortalityMinCases)])

(* A faulty variant: latest_data shares its rows with the table it was      *)
(* selected from, and the rate column lands in both.                       *)
MortalityRateAliased ==
    /\ pc = "mortality"
    /\ Proceed("mortality")
    /\ LET rated == SetColumn(latest_data, "Mortality Rate (%)", MortalityRates(latest_data))
       IN  /\ latest_data' = rated
           /\ full_grouped_relevant' =
                  SetColumn(full_grouped_relevant, "Mortality Rate (%)",
                            MortalityRates(full_grouped_relevant))
           /\ mortality_data' =
                  TopN(FilterMortality(rated), "Mortality Rate (%)", MortalityN, ties)
    /\ UNCHANGED <<files, loaded, full_grouped_filtered, worldometer_filtered,
                   worldometer_relevant, latest_date, top_countries, top_deaths,
                   region_data, top_5_countries, top_countries_data, highest_cases,
                   continent_data>>

(* Cell 3.2, third part: the rate column is added to latest_data (a table  *)
(* of its own: boolean indexing copied the rows), then the top 15 by rate  *)
(* among the rows with at least 1000 confirmed cases.                      *)
MortalityRate ==
    /\ pc = "mortality"
    /\ Proceed("mortality")
    /\ LET rated == SetColumn(latest_data, "Mortality Rate (%)", MortalityRates(latest_data))
       IN  /\ latest_data' = rated
           /\ mortality_data' =
                  TopN(FilterMortality(rated), "Mortality Rate (%)", MortalityN, ties)
    /\ UNCHANGED <<files, loaded, cleaned, latest_date, top_countries, top_deaths,
                   region_data, top_5_countries, top_countries_data, highest_cases,
                   continent_data>>

RegionSums == <<"Confirmed", "Deaths", "Recovered", "Active">>

(* A faulty variant: the sums taken over cleaned CountryDay on all its dates.*)
RegionAggregateAllDates(df) ==
    LET sums == GroupBySum(full_grouped_relevant, "WHO Region", RegionSums)
    IN  SetColumn(sums, "Mortality Rate (%)", MortalityRates(sums))

(* Cell 3.3: sums by WHO Region and the rate of the sums.                  *)
RegionAggregate(df) ==
    LET sums == GroupBySum(df, "WHO Region", RegionSums)
    IN  SetColumn(sums, "Mortality Rate (%)", MortalityRates(sums))

RegionData ==
    /\ pc = "region"
    /\ Proceed("region")
    /\ region_data' = RegionAggregate(latest_data)
    /\ UNCHANGED <<files, loaded, cleaned, latest_date, latest_data, top_countries,
                   top_deaths, mortality_data, top_5_countries, top_countries_data,
                   highest_cases, continent_data>>

(* Cell 3.4: the names of the top 5 by confirmed cases, and their rows on  *)
(* every date.                                                             *)
TopFiveCountries ==
    /\ pc = "top_5"
    /\ Proceed("top_5")
    /\ LET names == Column(TopN(latest_data, "Confirmed", TopFiveN, ties), "Country/Region")
       IN  /\ top_5_countries' = names
           /\ top_countries_data' =
                  BooleanIndex(full_grouped_relevant,
                               [i \in DOMAIN full_grouped_relevant.rows |->
                                   full_grouped_relevant.rows[i]["Country/Region"]
                                       \in Range(names)])
    /\ UNCHANGED <<files, loaded, cleaned, latest_date, latest_data, top_countries,
                   top_deaths, mortality_data, region_data, highest_cases, continent_data>>

ContinentSums == <<"Confirmed", "Deaths", "Recovered", "Active", "Population">>

(* (df[col] / df['Population']) * 1000000, row by row.                     *)
PerMillion(df, col) ==
    [i \in DOMAIN df.rows |->
        Times(Divide(df.rows[i][col], df.rows[i]["Population"]), Million)]

(* A faulty variant: the per-million rates of the countries added up.      *)
AddRates(a, b) ==
    IF a[2] = 0 THEN b
    ELSE IF b[2] = 0 THEN a
    ELSE LET g == Gcd(a[1] * b[2] + b[1] * a[2], a[2] * b[2])
         IN  <<(a[1] * b[2] + b[1] * a[2]) \div g, (a[2] * b[2]) \div g>>

RECURSIVE SumOfRates(_, _)
SumOfRates(rows, col) ==
    IF rows = <<>> THEN <<0, 1>>
    ELSE AddRates(Divide(Head(rows)[col], Head(rows)["Population"]),
                  SumOfRates(Tail(rows), col))

ContinentAggregateOfRates(df) ==
    LET sums == GroupBySum(df, "Continent", ContinentSums)
        group(k) == SelectRows(df.rows, [i \in DOMAIN df.rows |->
                                            df.rows[i]["Continent"] = sums.rows[k]["Continent"]])
        cases == SetColumn(sums, "Cases per Million",
                           [k \in DOMAIN sums.rows |->
                               Times(SumOfRates(group(k), "Confirmed"), Million)])
    IN  SetColumn(cases, "Deaths per Million",
                  [k \in DOMAIN sums.rows |-> Times(SumOfRates(group(k), "Deaths"), Million)])

(* Cell 3.5: sums by Continent and the per-million rates of the sums.      *)
ContinentAggregate(df) ==
    LET sums == GroupBySum(df, "Continent", ContinentSums)
        cases == SetColumn(sums, "Cases per Million", PerMillion(sums, "Confirmed"))
    IN  SetColumn(cases, "Deaths per Million", PerMillion(cases, "Deaths"))

ContinentData ==
    /\ pc = "continent"
    /\ Proceed("continent")
    /\ continent_data' = ContinentAggregate(worldometer_relevant)
    /\ UNCHANGED <<files, loaded, cleaned, latest_date, latest_data, country_views>>

(* Cell 4: the top 10 by confirmed cases.                                  *)
HighestCases ==
    /\ pc = "highest"
    /\ Proceed("highest")
    /\ highest_cases' = TopN(latest_data, "Confirmed", HighestCasesN, ties)
    /\ UNCHANGED <<files, loaded, cleaned, latest_date, latest_data, top_countries,
                   top_deaths, mortality_data, region_data, top_5_countries,
                   top_countries_data, continent_data>>

(* df.to_csv(path, index=False): the file is created or replaced.          *)
Save(step, df, path) ==
    /\ pc = step
    /\ Proceed(step)
    /\ disk' = [disk EXCEPT ![path] = ToCsv(df)]
    /\ written' = written \cup {path}
    /\ UNCHANGED <<fs, ties, frames>>

(* A faulty variant: the filtered table written in place of the projected one.*)
SaveCountryWiseFiltered ==
    Save("save_country_wise", full_grouped_filtered, ProcessedCountryWisePath)

(* Cell 5, the four to_csv calls in order.                                 *)
SaveDayWise == Save("save_day_wise", day_wise_df, ProcessedDayWisePath)

SaveCountryWise == Save("save_country_wise", full_grouped_relevant, ProcessedCountryWisePath)

SaveWorldometer == Save("save_worldometer", worldometer_relevant, ProcessedWorldometerPath)

SaveLatest == Save("save_latest", latest_data, LatestCovidDataPath)

Next ==
    \/ LoadDatasets
    \/ PreprocessDayWise
    \/ PreprocessFullGrouped
    \/ PreprocessWorldometer
    \/ LatestData
    \/ TopDeaths
    \/ MortalityRate
    \/ RegionData
    \/ TopFiveCountries
    \/ ContinentData
    \/ HighestCases
    \/ SaveDayWise
    \/ SaveCountryWise
    \/ SaveWorldometer
    \/ SaveLatest

Spec == Init /\ [][Next]_vars

---------------------------------------------------------------------------
(* Properties of the cleaning cells.                                       *)

Done(step) == step \in Range(executed)

(* The k-th smallest member of a set of row numbers.                       *)
NthIndex(K, k) == CHOOSE i \in K : Cardinality({j \in K : j <= i}) = k

(* The records of a source file that meet the threshold on column col.     *)
Qualifying(records, col) ==
    {i \in DOMAIN records : records[i][col] # NaN /\ records[i][col] >= 15}

(* out holds one row per qualifying record, in the order of the file, each *)
(* under the country of its record.                                        *)
KeepsQualifying(out, records, col) ==
    LET K == Qualifying(records, col)
    IN  /\ Len(out) = Cardinality(K)
        /\ \A k \in DOMAIN out :
               out[k]["Country/Region"] = records[NthIndex(K, k)]["Country/Region"]

(* C1: after cleaning, every retained CountryDay row and every retained    *)
(* CountrySnapshot row has Confirmed >= 15, every input row that meets the *)
(* threshold (Confirmed, or TotalCases before renaming) is retained, and   *)
(* the retained rows are in source order.                                  *)
C1_ThresholdFilter ==
    /\ Done("full_grouped") =>
           /\ \A k \in DOMAIN full_grouped_relevant.rows :
                  full_grouped_relevant.rows[k]["Confirmed"] >= 15
           /\ KeepsQualifying(full_grouped_relevant.rows, fs[FullGroupedPath].records,
                              "Confirmed")
    /\ Done("worldometer") =>
           /\ \A k \in DOMAIN worldometer_relevant.rows :
                  worldometer_relevant.rows[k]["Confirmed"] >= 15
           /\ KeepsQualifying(worldometer_relevant.rows, fs[WorldometerPath].records,
                              "TotalCases")

(* Both tables cleaned, each with a row kept and a row dropped, and two    *)
(* CountryDay rows kept.                                                   *)
C1_Witness ==
    /\ Done("worldometer")
    /\ Len(full_grouped_relevant.rows) >= 2
    /\ Len(full_grouped_relevant.rows) < Len(fs[FullGroupedPath].records)
    /\ Len(worldometer_relevant.rows) >= 1
    /\ Len(worldometer_relevant.rows) < Len(fs[WorldometerPath].records)

(* C6: cleaned CountrySnapshot has exactly the eight columns               *)
(* Country/Region, Continent, Confirmed, Deaths, Recovered, Active,        *)
(* WHO Region, Population, and in every retained row Confirmed, Deaths,    *)
(* Recovered, Active are the source row's TotalCases, TotalDeaths,         *)
(* TotalRecovered, ActiveCases and the other four columns are copied.      *)
C6_SnapshotRenamed ==
    Done("worldometer") =>
        LET records == fs[WorldometerPath].records
            K == Qualifying(records, "TotalCases")
            out == worldometer_relevant.rows
        IN  /\ worldometer_relevant.columns =
                   <<"Country/Region", "Continent", "Confirmed", "Deaths", "Recovered",
                     "Active", "WHO Region", "Population">>
            /\ Len(out) = Cardinality(K)
            /\ \A k \in DOMAIN out :
                   LET r == records[NthIndex(K, k)]
                   IN  /\ DOMAIN out[k] = Range(worldometer_relevant.columns)
                       /\ out[k]["Confirmed"] = r["TotalCases"]
                       /\ out[k]["Deaths"] = r["TotalDeaths"]
                       /\ out[k]["Recovered"] = r["TotalRecovered"]
                       /\ out[k]["Active"] = r["ActiveCases"]
                       /\ \A c \in {"Country/Region", "Continent", "WHO Region", "Population"} :
                              out[k][c] = r[c]

(* A retained snapshot row whose four renamed counts differ pairwise.      *)
C6_Witness ==
    /\ Done("worldometer")
    /\ \E k \in DOMAIN worldometer_relevant.rows :
           LET r == worldometer_relevant.rows[k]
           IN  Cardinality({r["Confirmed"], r["Deaths"], r["Recovered"], r["Active"]}) = 4

(* Whether the two tables are cleaned without dropping a row for a missing *)
(* value and without filling one in: one output row per record whose       *)
(* Confirmed (TotalCases) is at least 15, and in each a retained column is *)
(* missing exactly where the record's is.                                  *)
PassesMissing(out, columns, records, col, source(_)) ==
    LET K == Qualifying(records, col)
    IN  /\ Len(out) = Cardinality(K)
        /\ \A k \in DOMAIN out : \A c \in Range(columns) :
               LET v == records[NthIndex(K, k)][source(c)]
               IN  IF c = "Date"
                   THEN (out[k][c] = NaN) <=> (v = NoDateText)
                   ELSE (IsNull(c, out[k][c]) <=> IsNull(c, v)) /\ out[k][c] = v

SameLabel(c) == c

SnapshotSource(c) ==
    CASE c = "Confirmed" -> "TotalCases"
      [] c = "Deaths" -> "TotalDeaths"
      [] c = "Recovered" -> "TotalRecovered"
      [] c = "Active" -> "ActiveCases"
      [] OTHER -> c

(* C8: cleaning drops the rows that fail the Confirmed >= 15 threshold (a  *)
(* missing Confirmed fails it) and passes every other row through          *)
(* unmodified: no row is dropped because another retained column is        *)
(* missing, and no missing value is replaced.                              *)
C8_MissingPassThrough ==
    /\ Done("full_grouped") =>
           PassesMissing(full_grouped_relevant.rows, full_grouped_relevant.columns,
                         fs[FullGroupedPath].records, "Confirmed", SameLabel)
    /\ Done("worldometer") =>
           PassesMissing(worldometer_relevant.rows, worldometer_relevant.columns,
                         fs[WorldometerPath].records, "TotalCases", SnapshotSource)

(* Both tables cleaned; CountryDay keeps a row with a missing Deaths; the  *)
(* snapshot keeps a row with a missing Recovered; a row with a missing     *)
(* Confirmed was dropped.                                                  *)
C8_Witness ==
    /\ Done("worldometer")
    /\ \E k \in DOMAIN full_grouped_relevant.rows :
           full_grouped_relevant.rows[k]["Deaths"] = NaN
    /\ \E k \in DOMAIN worldometer_relevant.rows :
           worldometer_relevant.rows[k]["Recovered"] = NaN
    /\ \E i \in DOMAIN fs[FullGroupedPath].records :
           fs[FullGroupedPath].records[i]["Confirmed"] = NaN

---------------------------------------------------------------------------
(* Properties of the aggregation cells.                                    *)

(* A row cut down to the given columns.                                    *)
Cut(row, columns) == [c \in Range(columns) |-> row[c]]

CountryDayLabels ==
    <<"Date", "Country/Region", "Confirmed", "Deaths", "Recovered", "Active", "WHO Region">>

(* C2: LatestSnapshot (latest_data) holds exactly the rows of cleaned      *)
(* CountryDay whose Date is the largest Date present in cleaned            *)
(* CountryDay: each of them, in their order, and no row of another date.   *)
C2_LatestSnapshot ==
    Done("latest") =>
        LET src == full_grouped_relevant.rows
            dates == {src[i]["Date"] : i \in DOMAIN src} \ {NaN}
            K == {i \in DOMAIN src : src[i]["Date"] = latest_date /\ latest_date # NaN}
            out == latest_data.rows
        IN  /\ (dates = {}) <=> (latest_date = NaN)
            /\ dates # {} => latest_date \in dates /\ \A d \in dates : d <= latest_date
            /\ Len(out) = Cardinality(K)
            /\ \A k \in DOMAIN out :
                   /\ out[k]["Date"] = latest_date
                   /\ Cut(out[k], CountryDayLabels) = src[NthIndex(K, k)]

(* Cleaned CountryDay has rows of two dates, the earlier one first, and    *)
(* two rows of the latest date.                                            *)
C2_Witness ==
    /\ Done("latest")
    /\ Len(latest_data.rows) >= 2
    /\ Len(full_grouped_relevant.rows) > Len(latest_data.rows)
    /\ full_grouped_relevant.rows[1]["Date"] # NaN
    /\ full_grouped_relevant.rows[1]["Date"] < latest_date

RECURSIVE Total(_, _, _)
(* The sum of column col over the rows numbered in K.                      *)
Total(rows, col, K) ==
    IF K = {} THEN 0
    ELSE LET i == CHOOSE j \in K : TRUE
         IN  rows[i][col] + Total(rows, col, K \ {i})

(* C4: in every row of RegionAggregate (region_data), Confirmed, Deaths,   *)
(* Recovered and Active are each the sum of that column over the           *)
(* LatestSnapshot rows of the row's WHO Region, where those cells are all  *)
(* integers (none missing).                                                *)
C4_RegionSums ==
    Done("region") =>
        \A k \in DOMAIN region_data.rows :
            LET r == region_data.rows[k]
                K == {i \in DOMAIN latest_data.rows :
                         latest_data.rows[i]["WHO Region"] = r["WHO Region"]}
            IN  /\ K # {}
                /\ \A c \in {"Confirmed", "Deaths", "Recovered", "Active"} :
                       (\A i \in K : latest_data.rows[i][c] # NaN) =>
                           r[c] = Total(latest_data.rows, c, K)

(* A region summed over two rows of the latest date, with a row of the     *)
(* same region and an earlier date in cleaned CountryDay.                  *)
C4_Witness ==
    /\ Done("region")
    /\ \E k \in DOMAIN region_data.rows :
           LET region == region_data.rows[k]["WHO Region"]
           IN  /\ Cardinality({i \in DOMAIN latest_data.rows :
                                  latest_data.rows[i]["WHO Region"] = region}) = 2
               /\ \E i \in DOMAIN full_grouped_relevant.rows :
                      /\ full_grouped_relevant.rows[i]["WHO Region"] = region
                      /\ full_grouped_relevant.rows[i]["Date"] # latest_date
               /\ region_data.rows[k]["Deaths"] > 0

(* rate is sum / population x 1,000,000, as an exact fraction.             *)
RateOfSums(rate, sum, population) ==
    IF population = 0 THEN rate = (IF sum = 0 THEN NaNRate ELSE Inf)
    ELSE rate[2] > 0 /\ rate[1] * population = sum * 1000000 * rate[2]

Present(rows, col, K) == {i \in K : rows[i][col] # NaN}

(* C10: in every row of ContinentAggregate (continent_data), Confirmed,    *)
(* Deaths and Population are the sums of those columns over the cleaned    *)
(* CountrySnapshot rows of the row's Continent (a missing cell adds        *)
(* nothing), Cases per Million is (summed Confirmed / summed Population)   *)
(* x 1,000,000 and Deaths per Million is (summed Deaths / summed           *)
(* Population) x 1,000,000: the rates of the sums, as exact fractions; a   *)
(* zero Population sum gives an infinite (or, 0/0, undefined) rate.        *)
C10_ContinentRates ==
    Done("continent") =>
        \A k \in DOMAIN continent_data.rows :
            LET r == continent_data.rows[k]
                src == worldometer_relevant.rows
                K == {i \in DOMAIN src : src[i]["Continent"] = r["Continent"]}
                confirmed == Total(src, "Confirmed", Present(src, "Confirmed", K))
                deaths == Total(src, "Deaths", Present(src, "Deaths", K))
                population == Total(src, "Population", Present(src, "Population", K))
            IN  /\ K # {}
                /\ r["Confirmed"] = confirmed
                /\ r["Deaths"] = deaths
                /\ r["Population"] = population
                /\ RateOfSums(r["Cases per Million"], confirmed, population)
                /\ RateOfSums(r["Deaths per Million"], deaths, population)

(* A continent of two countries with different populations and different   *)
(* cases per head, and a second continent.                                 *)
C10_Witness ==
    /\ Done("continent")
    /\ Len(continent_data.rows) = 2
    /\ \E i, j \in DOMAIN worldometer_relevant.rows :
           LET a == worldometer_relevant.rows[i]
               b == worldometer_relevant.rows[j]
           IN  /\ i # j
               /\ a["Continent"] = b["Continent"]
               /\ a["Population"] > 0 /\ b["Population"] > 0
               /\ a["Confirmed"] * b["Population"] # b["Confirmed"] * a["Population"]

---------------------------------------------------------------------------
(* Properties of the top-N selections.                                     *)

(* Key a is below key b: a missing key is below every present one.         *)
Lower(col, a, b) ==
    IF IsNull(col, b) THEN FALSE
    ELSE IF IsNull(col, a) THEN TRUE
    ELSE Greater(col, b, a)

RECURSIVE StableInsert(_, _, _)
(* row put after every row of a descending sequence whose key is not below *)
(* its own.                                                                *)
StableInsert(sorted, row, col) ==
    IF sorted = <<>> THEN <<row>>
    ELSE IF Lower(col, Head(sorted)[col], row[col]) THEN <<row>> \o sorted
    ELSE <<Head(sorted)>> \o StableInsert(Tail(sorted), row, col)

RECURSIVE StableSort(_, _)
(* The stable descending sort of rows on col.                              *)
StableSort(rows, col) ==
    IF rows = <<>> THEN <<>>
    ELSE StableInsert(StableSort(SubSeq(rows, 1, Len(rows) - 1), col), rows[Len(rows)], col)

Smaller(a, b) == IF a < b THEN a ELSE b

Count(rows, r) == Cardinality({i \in DOMAIN rows : rows[i] = r})

(* out is the first n rows of the stable descending sort of in on col.     *)
StableTop(out, in, col, n) ==
    out = SubSeq(StableSort(in, col), 1, Smaller(n, Len(in)))

(* out is the first n rows of some descending sort of in on col: it has    *)
(* min(n, Len(in)) rows, all of them rows of in (none taken twice), in     *)
(* non-increasing key order, and no row left out has a larger key than a   *)
(* row taken.                                                              *)
DescendingTop(out, in, col, n) ==
    /\ Len(out) = Smaller(n, Len(in))
    /\ \A r \in Range(out) : Count(out, r) <= Count(in, r)
    /\ \A k \in 1..(Len(out) - 1) : ~Lower(col, out[k][col], out[k + 1][col])
    /\ \A r \in Range(in) :
           Count(out, r) < Count(in, r) =>
               \A t \in Range(out) : ~Lower(col, t[col], r[col])

(* The inputs of the selections: the latest rows as they were before the   *)
(* rate column was added, as they are after, and the rows of at least 1000 *)
(* confirmed cases.                                                        *)
LatestRows == [i \in DOMAIN latest_data.rows |-> Cut(latest_data.rows[i], CountryDayLabels)]

LargeRows == SelectSeq(latest_data.rows, LAMBDA r : r["Confirmed"] >= 1000)

(* The rows of latest_data under the names of top_5_countries.             *)
TopFiveRows ==
    [k \in DOMAIN top_5_countries |->
        CHOOSE r \in Range(latest_data.rows) : r["Country/Region"] = top_5_countries[k]]

(* The five selections, each tested by Top(out, in, col, n).               *)
Selections(Top(_, _, _, _)) ==
    /\ Done("latest") => Top(top_countries.rows, LatestRows, "Confirmed", 15)
    /\ Done("top_deaths") => Top(top_deaths.rows, LatestRows, "Deaths", 15)
    /\ Done("mortality") => Top(mortality_data.rows, LargeRows, "Mortality Rate (%)", 15)
    /\ Done("top_5") =>
           /\ \A k \in DOMAIN top_5_countries :
                  \E r \in Range(latest_data.rows) : r["Country/Region"] = top_5_countries[k]
           /\ Top(TopFiveRows, latest_data.rows, "Confirmed", 5)
    /\ Done("highest") => Top(highest_cases.rows, latest_data.rows, "Confirmed", 10)

(* C5 as claimed: every top-N selection is the first N rows of a stable    *)
(* descending sort of its input, rows with equal keys in source-row order. *)
C5_StableTopN == Selections(StableTop)

(* C5, amended: every top-N selection is the first N rows of a descending  *)
(* sort of its input on the sort key: min(N, number of input rows) rows of *)
(* the input, in non-increasing key order, no omitted row with a larger    *)
(* key than a selected row; the order of rows with equal keys is whatever  *)
(* the sort leaves.                                                        *)
C5_DescendingTopN == Selections(DescendingTop)

(* The run is over; each selection cut rows off its input, and the top 15  *)
(* by confirmed cases hold two rows with the same count.                   *)
C5_Witness ==
    /\ pc = "done"
    /\ Len(latest_data.rows) > 15
    /\ Len(LargeRows) > 15
    /\ Len(top_countries.rows) = 15 /\ Len(top_deaths.rows) = 15
    /\ Len(mortality_data.rows) = 15
    /\ Len(top_5_countries) = 5 /\ Len(highest_cases.rows) = 10
    /\ \E i, j \in DOMAIN top_countries.rows :
           i # j /\ top_countries.rows[i]["Confirmed"] = top_countries.rows[j]["Confirmed"]

---------------------------------------------------------------------------
(* Properties of the run as a whole.                                       *)

(* The file holds the table: the table's columns as its header, one record *)
(* per row in the table's order, every cell the table's cell, a date       *)
(* written in ISO format and a missing date as the empty field.            *)
Holds(file, columns, rows) ==
    /\ file.exists
    /\ file.header = columns
    /\ Len(file.records) = Len(rows)
    /\ \A i \in DOMAIN rows :
           /\ DOMAIN file.records[i] = Range(columns)
           /\ \A c \in Range(columns) :
                  IF c = "Date"
                  THEN file.records[i][c] =
                           (IF rows[i][c] = NaN THEN <<"", NaN>> ELSE <<"%Y-%m-%d", rows[i][c]>>)
                  ELSE file.records[i][c] = rows[i][c]

(* DailyGlobal as loaded, its dates as calendar days.                      *)
DailyGlobalRows ==
    [i \in DOMAIN fs[DayWisePath].records |->
        [c \in Range(fs[DayWisePath].header) |->
            IF c = "Date" THEN ParseDate(fs[DayWisePath].records[i][c])
            ELSE fs[DayWisePath].records[i][c]]]

(* The rate of a LatestSnapshot row is Deaths / Confirmed x 100.           *)
HasMortalityRate(row) ==
    IF row["Deaths"] = NaN THEN row["Mortality Rate (%)"] = NaNRate
    ELSE /\ row["Mortality Rate (%)"][2] > 0
         /\ row["Mortality Rate (%)"][1] * row["Confirmed"]
                = 100 * row["Deaths"] * row["Mortality Rate (%)"][2]

(* C3: when the run completes, exactly the four output files have been     *)
(* written, and each written file holds its table in place of whatever it  *)
(* held before: processed_day_wise.csv DailyGlobal with the rows and       *)
(* column values as loaded (each date the same calendar day),              *)
(* processed_country_wise.csv cleaned CountryDay on all dates,             *)
(* processed_worldometer.csv cleaned and renamed CountrySnapshot,          *)
(* latest_covid_data.csv LatestSnapshot with the Mortality Rate (%)        *)
(* column.                                                                 *)
C3_OutputFiles ==
    /\ pc = "done" => written = {"processed_day_wise.csv", "processed_country_wise.csv",
                                 "processed_worldometer.csv", "latest_covid_data.csv"}
    /\ written \subseteq OutputPaths
    /\ \A p \in OutputPaths \ written : disk[p] \in {Missing, Stale}
    /\ "processed_day_wise.csv" \in written =>
           Holds(disk["processed_day_wise.csv"], fs[DayWisePath].header, DailyGlobalRows)
    /\ "processed_country_wise.csv" \in written =>
           /\ Holds(disk["processed_country_wise.csv"], CountryDayLabels,
                    full_grouped_relevant.rows)
           /\ full_grouped_relevant.columns = CountryDayLabels
    /\ "processed_worldometer.csv" \in written =>
           Holds(disk["processed_worldometer.csv"],
                 <<"Country/Region", "Continent", "Confirmed", "Deaths", "Recovered",
                   "Active", "WHO Region", "Population">>,
                 worldometer_relevant.rows)
    /\ "latest_covid_data.csv" \in written =>
           /\ Holds(disk["latest_covid_data.csv"],
                    Append(CountryDayLabels, "Mortality Rate (%)"), latest_data.rows)
           /\ \A i \in DOMAIN latest_data.rows : HasMortalityRate(latest_data.rows[i])

(* The run is over, the day-wise file was written over an earlier one's    *)
(* place from dates in another format, with two rows or more.              *)
C3_Witness ==
    /\ pc = "done"
    /\ Len(disk["processed_day_wise.csv"].records) >= 2
    /\ \E i \in DOMAIN fs[DayWisePath].records :
           fs[DayWisePath].records[i]["Date"][1] = UsFormat
    /\ Len(disk["latest_covid_data.csv"].records) >= 1
    /\ Len(disk["processed_worldometer.csv"].records) >= 1

(* C7: if any of the four input files is missing, the run fails in the     *)
(* load cell and writes none of the four output files: they stay as they   *)
(* were.                                                                   *)
C7_MissingInputAborts ==
    (\E p \in InputPaths : ~fs[p].exists) =>
        /\ pc \in {"load", "failed"}
        /\ executed = <<>>
        /\ written = {}
        /\ \/ \A p \in OutputPaths : disk[p] = Missing
           \/ \A p \in OutputPaths : disk[p] = Stale

(* The run failed in the load cell after reading the first files: the last *)
(* file is the missing one.                                                *)
C7_Witness ==
    /\ pc = "failed"
    /\ ~fs[WorldometerPath].exists
    /\ day_wise_df # Unset /\ usa_county_wise_df # Unset
    /\ \A p \in OutputPaths : disk[p] = Stale

(* The steps of a run, top to bottom.                                      *)
PipelineOrder ==
    <<"load", "day_wise", "full_grouped", "worldometer", "latest", "top_deaths",
      "mortality", "region", "top_5", "continent", "highest",
      "save_day_wise", "save_country_wise", "save_worldometer", "save_latest">>

(* C9: the steps run once each in the fixed order Loader, Cleaner,         *)
(* Aggregator, Writer: the steps run so far are an initial part of that    *)
(* order and the next step is the one after them; nothing is written       *)
(* before the loading, the cleaning and the aggregation are through; a     *)
(* failed run has written nothing and takes no further step, as a         *)
(* completed one takes none; and a run is complete exactly when every step *)
(* has run, with all four files written.                                   *)
C9_FixedOrder ==
    /\ Len(executed) <= Len(PipelineOrder)
    /\ executed = SubSeq(PipelineOrder, 1, Len(executed))
    /\ pc \in {"done", "failed"} \/ (Len(executed) < Len(PipelineOrder)
                                       /\ pc = PipelineOrder[Len(executed) + 1])
    /\ written # {} => Len(executed) >= 12
    /\ pc = "done" <=> executed = PipelineOrder
    /\ pc = "done" => written = OutputPaths
    /\ pc = "failed" => written = {}
    /\ pc \in {"done", "failed"} => ~ENABLED Next

(* A run that succeeded.                                                   *)
C9_Witness ==
    /\ pc = "done"
    /\ written = OutputPaths
    /\ Len(latest_data.rows) >= 2
    /\ Len(continent_data.rows) >= 1

---------------------------------------------------------------------------
(* Properties of the mortality rates.                                      *)

(* The rows of cleaned CountryDay as the cleaning cell leaves them: the    *)
(* records of full_grouped.csv that meet the threshold, in the order of    *)
(* the file, cut down to the seven columns, the date parsed.               *)
CleanedCountryDay ==
    LET records == fs[FullGroupedPath].records
        kept == SelectSeq([i \in DOMAIN records |-> i],
                          LAMBDA i : i \in Qualifying(records, "Confirmed"))
    IN  [k \in DOMAIN kept |->
            [c \in Range(CountryDayLabels) |->
                IF c = "Date" THEN ParseDate(records[kept[k]][c])
                ELSE records[kept[k]][c]]]

(* C11: adding the Mortality Rate (%) column to LatestSnapshot leaves       *)
(* cleaned CountryDay unchanged: from the cleaning cell on, and so at      *)
(* every point after the column is added, full_grouped_relevant has        *)
(* exactly the seven columns Date, Country/Region, Confirmed, Deaths,      *)
(* Recovered, Active, WHO Region and the rows and values the cleaning left *)
(* in it; the new column is in latest_data alone; and                      *)
(* processed_country_wise.csv, once written, holds those seven columns and *)
(* those rows.                                                             *)
C11_CountryDayUnchanged ==
    /\ Done("full_grouped") =>
           /\ full_grouped_relevant.columns = CountryDayLabels
           /\ full_grouped_relevant.rows = CleanedCountryDay
           /\ "Mortality Rate (%)" \notin Range(full_grouped_relevant.columns)
    /\ Done("mortality") =>
           /\ latest_data.columns = Append(CountryDayLabels, "Mortality Rate (%)")
           /\ \A i \in DOMAIN latest_data.rows :
                  DOMAIN latest_data.rows[i]
                      = Range(CountryDayLabels) \cup {"Mortality Rate (%)"}
           /\ \A i \in DOMAIN full_grouped_relevant.rows :
                  DOMAIN full_grouped_relevant.rows[i] = Range(CountryDayLabels)
    /\ ProcessedCountryWisePath \in written =>
           Holds(disk[ProcessedCountryWisePath], CountryDayLabels, CleanedCountryDay)

(* The run is over: the rate column was added to a LatestSnapshot of two   *)
(* rows or more, cleaned CountryDay has a row of an earlier date besides,  *)
(* and processed_country_wise.csv was written with all of them.            *)
C11_Witness ==
    /\ pc = "done"
    /\ "Mortality Rate (%)" \in Range(latest_data.columns)
    /\ Len(latest_data.rows) >= 2
    /\ Len(full_grouped_relevant.rows) > Len(latest_data.rows)
    /\ Len(disk[ProcessedCountryWisePath].records) = Len(full_grouped_relevant.rows)

(* A rate whose division had a denominator other than zero: a fraction    *)
(* over a positive number, or missing because the numerator was.           *)
Defined(rate, numerator) ==
    IF numerator = NaN THEN rate = NaNRate ELSE rate[2] > 0

(* C12: the denominator of every Mortality Rate (%) computation is never   *)
(* zero: every LatestSnapshot row has Confirmed >= 15 when its rate is     *)
(* computed and from then on, every RegionAggregate row has a summed       *)
(* Confirmed >= 15, and no rate of either table is the result of a         *)
(* division by zero (infinite, or undefined from 0 / 0).                   *)
C12_DenominatorNeverZero ==
    /\ Done("latest") =>
           \A i \in DOMAIN latest_data.rows :
               /\ latest_data.rows[i]["Confirmed"] # NaN
               /\ latest_data.rows[i]["Confirmed"] >= 15
    /\ Done("mortality") =>
           /\ \A i \in DOMAIN latest_data.rows :
                  Defined(latest_data.rows[i]["Mortality Rate (%)"],
                          latest_data.rows[i]["Deaths"])
           /\ \A i \in DOMAIN mortality_data.rows :
                  Defined(mortality_data.rows[i]["Mortality Rate (%)"],
                          mortality_data.rows[i]["Deaths"])
    /\ Done("region") =>
           \A i \in DOMAIN region_data.rows :
               /\ region_data.rows[i]["Confirmed"] # NaN
               /\ region_data.rows[i]["Confirmed"] >= 15
               /\ region_data.rows[i]["Mortality Rate (%)"][2] > 0

(* Both rates computed from a file that has a record with no confirmed     *)
(* cases on the latest date: LatestSnapshot has a row at the threshold     *)
(* itself and a row with a rate above zero, and a region has its sum.      *)
C12_Witness ==
    /\ Done("region")
    /\ \E i \in DOMAIN fs[FullGroupedPath].records :
           /\ fs[FullGroupedPath].records[i]["Confirmed"] = 0
           /\ ParseDate(fs[FullGroupedPath].records[i]["Date"]) = latest_date
    /\ \E i \in DOMAIN latest_data.rows : latest_data.rows[i]["Confirmed"] = 15
    /\ \E i \in DOMAIN latest_data.rows :
           /\ latest_data.rows[i]["Deaths"] # NaN
           /\ latest_data.rows[i]["Mortality Rate (%)"][1] > 0
    /\ \E i \in DOMAIN region_data.rows :
           region_data.rows[i]["Confirmed"] > 1000

====
